---- MODULE Spec2Model ----
(***************************************************************************)
(* Model of cloud-run-docker-mirror (src/main.go): the HTTP handler        *)
(* handleMirror, which decodes a batch of mirror requests, launches        *)
(* `parallelism` worker goroutines, enqueues one closure per mirror on a   *)
(* buffered channel, closes it, and collects len(req.Mirrors) results      *)
(* before writing the JSON response.                                       *)
(*                                                                         *)
(* One request is modelled from the moment the handler is entered.  The    *)
(* handler goroutine and every worker goroutine are separate processes;    *)
(* each action is one step between two synchronisation points.             *)
(***************************************************************************)
EXTENDS Integers, Sequences, FiniteSets, TLC

\* ------------------------------------------------------------------------
\* Bounds of the model
\* ------------------------------------------------------------------------

\* Largest number of entries in the "mirrors" array of a request.
MaxJobs == 2

\* Largest explicit "parallelism" value of a request.
MaxParallelism == 2

\* Largest number of mirrors of a request whose workers are observed one by one.
MaxObservedJobs == 1

\* Largest number of mirrors, and largest parallelism, of each of two
\* requests handled at the same time.
MaxConcurrentJobs == 1
MaxConcurrentParallelism == 1

\* ------------------------------------------------------------------------
\* Program constants
\* ------------------------------------------------------------------------

\* main.go:143  parallelism = 5
DefaultParallelism == 5

\* net/http status codes used by the handler
StatusOK == 200
StatusBadRequest == 400
StatusRequestEntityTooLarge == 413
StatusInternalServerError == 500

\* ------------------------------------------------------------------------
\* Values
\* ------------------------------------------------------------------------

\* The nil error of gcrane.Copy (the copy succeeded).
NoErr == "nil"

\* gcrane.Copy has not returned for this mirror yet.
NotCalled == "not called"

\* The nil *MirrorError (the result of a job that succeeded).
Nil == [Index |-> -1, Name |-> "", Err |-> ""]

\* The worker holds no closure.
NoJob == [i |-> -1, m |-> [Src |-> "", Dst |-> ""]]

\* Nothing has been written to the http.ResponseWriter yet.
NoResponse == [status |-> 0, OK |-> FALSE, Errors |-> <<>>]

\* The server is not followed as a whole.
NoServer == [chans |-> <<>>, hs |-> <<>>, ws |-> <<>>]

\* type Mirror struct { Src, Dst string }
Mirrors == { [Src |-> "postgres", Dst |-> "example.com/r/postgres"],
             [Src |-> "redis",    Dst |-> "example.com/r/redis"] }

\* A nil *Mirror: what json.Decoder stores for a null element of "mirrors"
\* (Mirrors is a []*Mirror).
NilMirror == [Src |-> "<nil>", Dst |-> "<nil>"]

\* Elements the decoded Mirrors slice may hold.
MirrorPointers == Mirrors \cup {NilMirror}

\* Evaluating the expression dereferences a nil pointer: the goroutine panics.
Panic == "panic: runtime error: invalid memory address or nil pointer dereference"

\* Error texts gcrane.Copy may return (err.Error()).
CopyErrors == {"unauthorized", "timeout"}

\* What a call of gcrane.Copy(src, dst) may return: nil, or the error of the
\* source registry (one registry refuses the pull, the other times out).
CopyOutcomes(src, dst) ==
  {NoErr} \cup (IF src = "postgres" THEN {"unauthorized"} ELSE {"timeout"})

\* Values the "parallelism" key of a well-formed body may carry.
ParallelismValues == -1 .. MaxParallelism

\* Sequences over S of length 0..n.
RECURSIVE SeqsUpTo(_, _)
SeqsUpTo(S, n) ==
  IF n = 0 THEN { <<>> }
  ELSE LET shorter == SeqsUpTo(S, n - 1)
       IN  shorter \cup { Append(s, x) : s \in { t \in shorter : Len(t) = n - 1 }, x \in S }

\* Ways a request body can fail to decode (the cases of decodeJSON's switch).
DecodeFailures == {"syntax", "unexpectedEOF", "type", "unknownField", "empty", "tooLarge", "other"}

\* Request bodies: the well-formed ones carry mirrors, each an object or
\* null, and, when hasParallelism, a "parallelism" key.
Bodies ==
  { [kind |-> "valid", mirrors |-> ms, hasParallelism |-> TRUE, parallelism |-> p] :
       ms \in SeqsUpTo(MirrorPointers, MaxJobs), p \in ParallelismValues }
  \cup
  { [kind |-> "valid", mirrors |-> ms, hasParallelism |-> FALSE, parallelism |-> 0] :
       ms \in SeqsUpTo(MirrorPointers, MaxJobs) }
  \cup
  { [kind |-> k, mirrors |-> <<>>, hasParallelism |-> FALSE, parallelism |-> 0] :
       k \in DecodeFailures }

\* Upper bound on the worker goroutines one request can launch.
MaxWorkers == IF MaxParallelism > DefaultParallelism THEN MaxParallelism ELSE DefaultParallelism

\* ------------------------------------------------------------------------
\* State
\* ------------------------------------------------------------------------
VARIABLES
  body,         \* the request body as sent by the client
  copyOutcome,  \* copyOutcome[k]: what gcrane.Copy returned for mirror k (1-based)
  pc,           \* position of the handler goroutine
  req,          \* var req Request, after decodeJSON
  parallelism,  \* local variable parallelism
  i,            \* loop counter of the current for loop of the handler
  jobs,         \* chan func() *MirrorError
  results,      \* chan *MirrorError
  errors,       \* var errors []*MirrorError
  workers,      \* the worker goroutines launched so far, in launch order
  stdout,       \* per job: number of "processing" and "finished" lines printed
  response,     \* what has been written to the http.ResponseWriter
  ran,          \* per observed worker: number of closures it has called
  ctxDone,      \* the request's context (r.Context()) has been cancelled
  srv,          \* the whole server when it handles several requests at once:
                \* the channels made so far, one handler frame per request,
                \* and all worker goroutines
  exited,       \* the process has ended, with every goroutine in it: a
                \* goroutine panicked outside net/http's recover, or main
                \* returned or called os.Exit
  interrupted   \* the process has received an interrupt signal: realMain
                \* is shutting the server down

\* The variables of the one request followed in detail.
reqVars == <<body, copyOutcome, pc, req, parallelism, i, jobs, results, errors,
             workers, stdout, response, ran, ctxDone>>

vars == <<body, copyOutcome, pc, req, parallelism, i, jobs, results, errors,
          workers, stdout, response, ran, ctxDone, srv, exited, interrupted>>

\* ------------------------------------------------------------------------
\* Pure functions
\* ------------------------------------------------------------------------

\* func (m *Mirror) Name() string
Name(m) == IF m = NilMirror THEN Panic ELSE "(" \o m.Src \o " to " \o m.Dst \o ")"

\* parallelism := req.Parallelism; if parallelism == 0 { parallelism = 5 }
EffectiveParallelism(p) == IF p = 0 THEN DefaultParallelism ELSE p

\* An unbuffered channel: make(chan T).
MakeChanUnbuffered(n) == [buf |-> <<>>, cap |-> 0, closed |-> FALSE]

\* A channel one place too small.
MakeChanShort(n) == [buf |-> <<>>, cap |-> n - 1, closed |-> FALSE]

\* make(chan T, n)
MakeChan(n) == [buf |-> <<>>, cap |-> n, closed |-> FALSE]

\* Both channels of every request being the two channels made first, as
\* package-level channels would be.
MakeChansShared(heap, n) ==
  IF Len(heap) = 0
  THEN [heap |-> <<MakeChan(n), MakeChan(n)>>, jobs |-> 1, results |-> 2]
  ELSE [heap |-> heap, jobs |-> 1, results |-> 2]

\* jobs := make(chan ..., n); results := make(chan ..., n) inside the handler
\* function: each call of the handler makes two new channels.  heap holds the
\* channels made so far; a channel is known by its position in it.
MakeChans(heap, n) ==
  [heap |-> heap \o <<MakeChan(n), MakeChan(n)>>,
   jobs |-> Len(heap) + 1,
   results |-> Len(heap) + 2]

\* The zero Request, and the Request json.Decoder fills in from a valid body:
\* an absent "parallelism" leaves the int field at 0.
DecodedRequest(b) ==
  [Mirrors |-> b.mirrors,
   Parallelism |-> IF b.hasParallelism THEN b.parallelism ELSE 0]

\* decodeJSON answering every failure with 400.
DecodeStatusBadRequest(kind) ==
  CASE kind = "other" -> StatusInternalServerError
    [] OTHER          -> StatusBadRequest

\* decodeJSON's result for a body that does not decode: the status of the
\* jsonError, or that of internalError for an error of no listed kind.
DecodeStatus(kind) ==
  CASE kind = "tooLarge" -> StatusRequestEntityTooLarge
    [] kind = "other"    -> StatusInternalServerError
    [] OTHER             -> StatusBadRequest

\* RunJob reporting the 1-based position of the mirror as its index.
RunJobOneBased(j, outcome) ==
  IF outcome # NoErr
  THEN [Index |-> j.i + 1, Name |-> Name(j.m), Err |-> outcome]
  ELSE Nil

\* The closure j = [i, m] sent on jobs for mirror m at 0-based position i,
\* run with gcrane.Copy returning outcome.
RunJob(j, outcome) ==
  IF outcome # NoErr
  THEN [Index |-> j.i, Name |-> Name(j.m), Err |-> outcome]
  ELSE Nil

\* The spawn loop running once too often: i <= parallelism.
SpawnMoreInclusive(k, p) == k <= p

\* for i := 0; i < parallelism; i++
SpawnMore(k, p) == k < p

\* The enqueuing loop leaving out the last mirror.
EnqueueMoreShort(k, r) == k < Len(r.Mirrors) - 1

\* for i, m := range req.Mirrors
EnqueueMore(k, r) == k < Len(r.Mirrors)

\* The collecting loop stopping one result short.
CollectMoreShort(k, r, errs) == k < Len(r.Mirrors) - 1

\* The collecting loop giving up once the request's context is cancelled.
CollectMoreUnlessCancelled(k, r, errs) == k < Len(r.Mirrors) /\ ~ctxDone

\* The collecting loop giving up at the first failure it reads.
CollectMoreUntilError(k, r, errs) == k < Len(r.Mirrors) /\ Len(errs) = 0

\* for i := 0; i < len(req.Mirrors); i++   (the loop reading results),
\* with errs the errors gathered so far
CollectMore(k, r, errs) == k < Len(r.Mirrors)

\* A close that leaves the channel open.
CloseChanForgotten(ch) == ch

\* A close that throws away what is still buffered.
CloseChanDropping(ch) == [ch EXCEPT !.closed = TRUE, !.buf = <<>>]

\* close(jobs)
CloseChan(ch) == [ch EXCEPT !.closed = TRUE]

\* A receive that leaves the closure in the channel.
JobsRecvPeek(ch) == ch

\* for j := range jobs: the channel after the worker has taken its head.
JobsRecv(ch) == [ch EXCEPT !.buf = Tail(@)]

\* A collecting loop that keeps only the failure it read last.
AppendErrorFront(errs, err) == IF err # Nil THEN <<err>> \o errs ELSE errs

\* The collecting loop keeping only the failure it read last.
AppendErrorLast(errs, err) == IF err # Nil THEN <<err>> ELSE errs

\* if err := <-results; err != nil { errors = append(errors, err) }
AppendError(errs, err) == IF err # Nil THEN Append(errs, err) ELSE errs

\* A response that reports ok whatever the errors are.
MakeResponseAlwaysOK(errs) == [status |-> StatusOK, OK |-> TRUE, Errors |-> errs]

\* A response whose test is len(errors) >= 0.
MakeResponseNeverOK(errs) == [status |-> StatusOK, OK |-> FALSE, Errors |-> errs]

\* if len(errors) > 0 { Response{Errors: errors} } else { Response{OK: true} }
MakeResponse(errs) ==
  IF Len(errs) > 0
  THEN [status |-> StatusOK, OK |-> FALSE, Errors |-> errs]
  ELSE [status |-> StatusOK, OK |-> TRUE, Errors |-> <<>>]

\* ------------------------------------------------------------------------
\* Initial state: the handler has just been entered with some request.
\* ------------------------------------------------------------------------
Init ==
  /\ body \in Bodies
  /\ copyOutcome = [k \in 1 .. Len(body.mirrors) |-> NotCalled]
  /\ pc = "decode"
  /\ req = [Mirrors |-> <<>>, Parallelism |-> 0]
  /\ parallelism = 0
  /\ i = 0
  /\ jobs = MakeChan(0)
  /\ results = MakeChan(0)
  /\ errors = <<>>
  /\ workers = <<>>
  /\ stdout = [k \in 1 .. Len(body.mirrors) |-> [processing |-> 0, finished |-> 0]]
  /\ response = NoResponse
  /\ ran = <<>>
  /\ ctxDone = FALSE
  /\ srv = NoServer
  /\ exited = FALSE
  /\ interrupted = FALSE

\* ------------------------------------------------------------------------
\* The handler goroutine
\* ------------------------------------------------------------------------

\* decodeJSON fails: http.Error / internalError and return.
DecodeFail ==
  /\ ~exited
  /\ pc = "decode"
  /\ body.kind # "valid"
  /\ response' = [status |-> DecodeStatus(body.kind), OK |-> FALSE, Errors |-> <<>>]
  /\ pc' = "done"
  /\ UNCHANGED <<srv, interrupted, exited, ran, ctxDone, body, copyOutcome, req, parallelism, i, jobs, results, errors,
                 workers, stdout>>

\* decodeJSON succeeds; parallelism is resolved and both channels are made.
DecodeOK ==
  /\ ~exited
  /\ pc = "decode"
  /\ body.kind = "valid"
  /\ req' = DecodedRequest(body)
  /\ parallelism' = EffectiveParallelism(req'.Parallelism)
  /\ jobs' = MakeChan(Len(req'.Mirrors))
  /\ results' = MakeChan(Len(req'.Mirrors))
  /\ i' = 0
  /\ pc' = "spawn"
  /\ UNCHANGED <<srv, interrupted, exited, ran, ctxDone, body, copyOutcome, errors, workers, stdout, response>>

\* go worker(jobs, results)
SpawnWorker ==
  /\ ~exited
  /\ pc = "spawn"
  /\ SpawnMore(i, parallelism)
  /\ workers' = Append(workers, [pc |-> "range", j |-> NoJob, res |-> Nil])
  /\ i' = i + 1
  /\ UNCHANGED <<srv, interrupted, exited, ran, ctxDone, body, copyOutcome, pc, req, parallelism, jobs, results, errors,
                 stdout, response>>

\* The spawn loop ends; the range over req.Mirrors begins.
SpawnDone ==
  /\ ~exited
  /\ pc = "spawn"
  /\ ~SpawnMore(i, parallelism)
  /\ i' = 0
  /\ pc' = "enqueue"
  /\ UNCHANGED <<srv, interrupted, exited, ran, ctxDone, body, copyOutcome, req, parallelism, jobs, results, errors,
                 workers, stdout, response>>

\* jobs <- func() *MirrorError {...}  for mirror i; blocks while the buffer is full.
Enqueue ==
  /\ ~exited
  /\ pc = "enqueue"
  /\ EnqueueMore(i, req)
  /\ ~jobs.closed
  /\ Len(jobs.buf) < jobs.cap
  /\ jobs' = [jobs EXCEPT !.buf = Append(@, [i |-> i, m |-> req.Mirrors[i + 1]])]
  /\ i' = i + 1
  /\ UNCHANGED <<srv, interrupted, exited, ran, ctxDone, body, copyOutcome, pc, req, parallelism, results, errors,
                 workers, stdout, response>>

\* close(jobs); var errors []*MirrorError
CloseJobs ==
  /\ ~exited
  /\ pc = "enqueue"
  /\ ~EnqueueMore(i, req)
  /\ jobs' = CloseChan(jobs)
  /\ errors' = <<>>
  /\ i' = 0
  /\ pc' = "collect"
  /\ UNCHANGED <<srv, interrupted, exited, ran, ctxDone, body, copyOutcome, req, parallelism, results, workers, stdout,
                 response>>

\* err := <-results; blocks while the buffer is empty.
Collect ==
  /\ ~exited
  /\ pc = "collect"
  /\ CollectMore(i, req, errors)
  /\ Len(results.buf) > 0
  /\ errors' = AppendError(errors, Head(results.buf))
  /\ results' = [results EXCEPT !.buf = Tail(@)]
  /\ i' = i + 1
  /\ UNCHANGED <<srv, interrupted, exited, ran, ctxDone, body, copyOutcome, pc, req, parallelism, jobs, workers, stdout,
                 response>>

\* jsonResponse(w, ...)
Respond ==
  /\ ~exited
  /\ pc = "collect"
  /\ ~CollectMore(i, req, errors)
  /\ response' = MakeResponse(errors)
  /\ pc' = "done"
  /\ UNCHANGED <<srv, interrupted, exited, ran, ctxDone, body, copyOutcome, req, parallelism, i, jobs, results, errors,
                 workers, stdout>>

Handler ==
  \/ DecodeFail
  \/ DecodeOK
  \/ SpawnWorker
  \/ SpawnDone
  \/ Enqueue
  \/ CloseJobs
  \/ Collect
  \/ Respond

\* ------------------------------------------------------------------------
\* The worker goroutines
\* ------------------------------------------------------------------------

\* for j := range jobs: the worker takes the next closure out of the channel.
WorkerRecv(w) ==
  /\ ~exited
  /\ w \in 1 .. Len(workers)
  /\ workers[w].pc = "range"
  /\ Len(jobs.buf) > 0
  /\ workers' = [workers EXCEPT ![w] = [pc |-> "call", j |-> Head(jobs.buf), res |-> Nil]]
  /\ jobs' = JobsRecv(jobs)
  /\ UNCHANGED <<srv, interrupted, exited, ran, ctxDone, body, copyOutcome, pc, req, parallelism, i, results,
                 errors, stdout, response>>

\* j() is called: the closure evaluates m.Name(), prints "processing" and
\* enters gcrane.Copy.
CallJob(w) ==
  /\ ~exited
  /\ w \in 1 .. Len(workers)
  /\ workers[w].pc = "call"
  /\ Name(workers[w].j.m) # Panic
  /\ stdout' = [stdout EXCEPT ![workers[w].j.i + 1].processing = @ + 1]
  /\ workers' = [workers EXCEPT ![w].pc = "copy"]
  /\ ran' = IF w \in DOMAIN ran THEN [ran EXCEPT ![w] = @ + 1] ELSE ran
  /\ UNCHANGED <<srv, interrupted, exited, ctxDone, body, copyOutcome, pc, req, parallelism, i, jobs,
                 results, errors, response>>

\* j() is called for a nil *Mirror: m.Name() reads m.Src and panics before
\* anything is printed.  The panic is in the worker goroutine, where nothing
\* recovers it: the process exits.
CallPanic(w) ==
  /\ ~exited
  /\ w \in 1 .. Len(workers)
  /\ workers[w].pc = "call"
  /\ Name(workers[w].j.m) = Panic
  /\ exited' = TRUE
  /\ ran' = IF w \in DOMAIN ran THEN [ran EXCEPT ![w] = @ + 1] ELSE ran
  /\ UNCHANGED <<srv, interrupted, ctxDone, body, copyOutcome, pc, req, parallelism, i, jobs, results,
                 errors, workers, stdout, response>>

\* gcrane.Copy returns some outcome; the closure returns its result and its
\* deferred Fprintf prints "finished".  The worker now holds the result.
CopyReturn(w) ==
  /\ ~exited
  /\ w \in 1 .. Len(workers)
  /\ workers[w].pc = "copy"
  /\ \E outcome \in CopyOutcomes(workers[w].j.m.Src, workers[w].j.m.Dst) :
       LET j == workers[w].j
       IN  /\ copyOutcome' = [copyOutcome EXCEPT ![j.i + 1] = outcome]
           /\ stdout' = [stdout EXCEPT ![j.i + 1].finished = @ + 1]
           /\ workers' = [workers EXCEPT ![w] = [pc |-> "send", j |-> NoJob,
                                                 res |-> RunJob(j, outcome)]]
  /\ UNCHANGED <<srv, interrupted, exited, ran, ctxDone, body, pc, req, parallelism, i, jobs, results,
                 errors, response>>

\* results <- (the value j() returned); blocks while the buffer is full.
WorkerSend(w) ==
  /\ ~exited
  /\ w \in 1 .. Len(workers)
  /\ workers[w].pc = "send"
  /\ Len(results.buf) < results.cap
  /\ results' = [results EXCEPT !.buf = Append(@, workers[w].res)]
  /\ workers' = [workers EXCEPT ![w] = [pc |-> "range", j |-> NoJob, res |-> Nil]]
  /\ UNCHANGED <<srv, interrupted, exited, ran, ctxDone, body, copyOutcome, pc, req, parallelism, i, jobs,
                 errors, stdout, response>>

\* range over a closed and drained channel ends; the worker returns.
WorkerExit(w) ==
  /\ ~exited
  /\ w \in 1 .. Len(workers)
  /\ workers[w].pc = "range"
  /\ Len(jobs.buf) = 0
  /\ jobs.closed
  /\ workers' = [workers EXCEPT ![w] = [pc |-> "returned", j |-> NoJob, res |-> Nil]]
  /\ UNCHANGED <<srv, interrupted, exited, ran, ctxDone, body, copyOutcome, pc, req, parallelism, i, jobs, results,
                 errors, stdout, response>>

Worker(w) ==
  \/ WorkerRecv(w)
  \/ CallJob(w)
  \/ CallPanic(w)
  \/ CopyReturn(w)
  \/ WorkerSend(w)
  \/ WorkerExit(w)

\* ------------------------------------------------------------------------
\* Specifications
\* ------------------------------------------------------------------------
Next ==
  \/ Handler
  \/ \E w \in 1 .. MaxWorkers : Worker(w)

Spec == Init /\ [][Next]_vars

\* The Go scheduler runs every runnable goroutine eventually, and every call
\* of gcrane.Copy is assumed to return.
FairSpec ==
  /\ Spec
  /\ WF_vars(Handler)
  /\ \A w \in 1 .. MaxWorkers : WF_vars(Worker(w))

\* The client goes away while the batch runs: net/http cancels the context
\* of the request.  Neither the handler nor the workers nor
\* gcrane.Copy(src, dst) are given that context.
Cancel ==
  /\ ~exited
  /\ body.kind = "valid"
  /\ pc \in {"spawn", "enqueue", "collect"}
  /\ ~ctxDone
  /\ ctxDone' = TRUE
  /\ UNCHANGED <<srv, interrupted, exited, ran, body, copyOutcome, pc, req, parallelism, i, jobs,
                 results, errors, workers, stdout, response>>

\* The process receives an interrupt: the <-ctx.Done() case of the select in
\* realMain, which prints "shutting down..." and calls server.Shutdown with
\* a timeout of 5 seconds.  Shutdown closes the listener and waits; it
\* cancels no request context.  The other case of the select is ServerError.
Interrupt ==
  /\ ~exited
  /\ ~interrupted
  /\ interrupted' = TRUE
  /\ UNCHANGED <<srv, exited, ran, ctxDone, body, copyOutcome, pc, req, parallelism, i, jobs,
                 results, errors, workers, stdout, response>>

\* server.ListenAndServe returns an error other than ErrServerClosed while
\* realMain waits in its select: the goroutine sends it on errCh, realMain
\* returns it and main calls os.Exit(1).  Once realMain has left the select
\* for the shutdown the send finds no receiver and is dropped.
ServerError ==
  /\ ~exited
  /\ ~interrupted
  /\ exited' = TRUE
  /\ UNCHANGED <<srv, interrupted, ran, ctxDone, body, copyOutcome, pc, req, parallelism, i,
                 jobs, results, errors, workers, stdout, response>>

\* The 5 seconds pass while the handler is still running: Shutdown returns
\* an error, realMain returns it and main calls os.Exit(1).  The handler and
\* the workers end where they are.
ShutdownTimeout ==
  /\ ~exited
  /\ interrupted
  /\ pc # "done"
  /\ exited' = TRUE
  /\ UNCHANGED <<srv, interrupted, ran, ctxDone, body, copyOutcome, pc, req, parallelism, i,
                 jobs, results, errors, workers, stdout, response>>

\* The handler has returned within the 5 seconds: Shutdown returns nil,
\* realMain returns nil and main returns.  Workers that have not returned
\* yet end with the process.
ShutdownDone ==
  /\ ~exited
  /\ interrupted
  /\ pc = "done"
  /\ exited' = TRUE
  /\ UNCHANGED <<srv, interrupted, ran, ctxDone, body, copyOutcome, pc, req, parallelism, i,
                 jobs, results, errors, workers, stdout, response>>

\* The requests followed under cancellation and shutdown: well-formed ones
\* that ask for at least one worker, or name no parallelism and get the
\* default; the latter carry at most MaxObservedJobs mirrors.  What is
\* copied plays no part here: every mirror is the postgres one or null.
CancelInit ==
  /\ Init
  /\ body.kind = "valid"
  /\ \A k \in 1 .. Len(body.mirrors) : body.mirrors[k].Src \in {"postgres", NilMirror.Src}
  /\ IF body.hasParallelism
       THEN body.parallelism >= 1
       ELSE Len(body.mirrors) <= MaxObservedJobs

CancelNext ==
  \/ DecodeOK
  \/ SpawnWorker
  \/ SpawnDone
  \/ Enqueue
  \/ CloseJobs
  \/ Collect
  \/ Respond
  \/ \E w \in 1 .. MaxWorkers : Worker(w)
  \/ Cancel
  \/ Interrupt
  \/ ServerError
  \/ ShutdownTimeout
  \/ ShutdownDone

\* While some goroutine of the batch can take a step, the Go scheduler runs
\* one eventually, and every call of gcrane.Copy is assumed to return;
\* nothing obliges a client to go away, an interrupt to arrive or the server
\* to fail.
CancelSpec ==
  /\ CancelInit
  /\ [][CancelNext]_vars
  /\ WF_vars(Handler \/ \E w \in 1 .. MaxWorkers : Worker(w))

\* The same program with every worker observed: ran counts, per worker, the
\* closures it has called.  The requests are well-formed ones of at most
\* MaxObservedJobs mirrors.
ObservedInit ==
  /\ body \in { b \in Bodies : b.kind = "valid" /\ Len(b.mirrors) <= MaxObservedJobs }
  /\ copyOutcome = [k \in 1 .. Len(body.mirrors) |-> NotCalled]
  /\ pc = "decode"
  /\ req = [Mirrors |-> <<>>, Parallelism |-> 0]
  /\ parallelism = 0
  /\ i = 0
  /\ jobs = MakeChan(0)
  /\ results = MakeChan(0)
  /\ errors = <<>>
  /\ workers = <<>>
  /\ stdout = [k \in 1 .. Len(body.mirrors) |-> [processing |-> 0, finished |-> 0]]
  /\ response = NoResponse
  /\ ran = [w \in 1 .. MaxWorkers |-> 0]
  /\ ctxDone = FALSE
  /\ srv = NoServer
  /\ exited = FALSE
  /\ interrupted = FALSE

\* The steps a well-formed request takes.
ObservedNext ==
  \/ DecodeOK
  \/ SpawnWorker
  \/ SpawnDone
  \/ Enqueue
  \/ CloseJobs
  \/ Collect
  \/ Respond
  \/ \E w \in 1 .. MaxWorkers : Worker(w)

FairObservedSpec ==
  /\ ObservedInit
  /\ [][ObservedNext]_vars
  /\ WF_vars(Handler)
  /\ \A w \in 1 .. MaxWorkers : WF_vars(Worker(w))

\* ------------------------------------------------------------------------
\* The server handling two requests at the same time.  net/http runs the
\* handler function once per request, each call in its own goroutine; all
\* calls and all workers share the one address space, modelled by srv.
\* Closures and results carry the request they were made for (field r),
\* which the program does not record.
\* ------------------------------------------------------------------------

Requests == {1, 2}

\* Request 1 mirrors postgres, request 2 mirrors redis.
RequestMirror(r) ==
  IF r = 1 THEN [Src |-> "postgres", Dst |-> "example.com/r/postgres"]
           ELSE [Src |-> "redis",    Dst |-> "example.com/r/redis"]

\* The bodies request r may carry.  Request 1 asks for up to
\* MaxConcurrentJobs copies of its mirror, or as many nulls, with a
\* parallelism of up to MaxConcurrentParallelism; request 2, handled
\* meanwhile, asks for one copy of its mirror with one worker.
ConcurrentBodies(r) ==
  IF r = 1
  THEN { [kind |-> "valid", mirrors |-> [k \in 1 .. n |-> m],
          hasParallelism |-> TRUE, parallelism |-> p] :
            n \in 1 .. MaxConcurrentJobs, p \in 1 .. MaxConcurrentParallelism,
            m \in {RequestMirror(r), NilMirror} }
  ELSE { [kind |-> "valid", mirrors |-> <<RequestMirror(r)>>,
          hasParallelism |-> TRUE, parallelism |-> 1] }

\* The locals of one call of the handler function, at entry.
Frame(b) ==
  [pc |-> "decode", body |-> b, req |-> [Mirrors |-> <<>>, Parallelism |-> 0],
   parallelism |-> 0, i |-> 0, jobs |-> 0, results |-> 0, errors |-> <<>>,
   got |-> {}, response |-> NoResponse]

\* A server worker holds no closure.
SrvNoJob == [r |-> 0, i |-> -1, m |-> [Src |-> "", Dst |-> ""]]

\* A server worker holds no result.
SrvNoResult == [r |-> 0, err |-> Nil]

ServerInit ==
  /\ \E b1 \in ConcurrentBodies(1), b2 \in ConcurrentBodies(2) :
       srv = [chans |-> <<>>, hs |-> <<Frame(b1), Frame(b2)>>, ws |-> <<>>]
  /\ body = [kind |-> "empty", mirrors |-> <<>>, hasParallelism |-> FALSE, parallelism |-> 0]
  /\ copyOutcome = <<>>
  /\ pc = "done"
  /\ req = [Mirrors |-> <<>>, Parallelism |-> 0]
  /\ parallelism = 0
  /\ i = 0
  /\ jobs = MakeChan(0)
  /\ results = MakeChan(0)
  /\ errors = <<>>
  /\ workers = <<>>
  /\ stdout = <<>>
  /\ response = NoResponse
  /\ ran = <<>>
  /\ ctxDone = FALSE
  /\ exited = FALSE
  /\ interrupted = FALSE

\* decodeJSON succeeds; parallelism is resolved and both channels are made.
SrvDecode(r) ==
  LET h == srv.hs[r]
      rq == DecodedRequest(h.body)
      made == MakeChans(srv.chans, Len(rq.Mirrors))
  IN  /\ ~exited
      /\ h.pc = "decode"
      /\ srv' = [srv EXCEPT
                   !.chans = made.heap,
                   !.hs[r] = [h EXCEPT !.pc = "spawn", !.req = rq,
                                       !.parallelism = EffectiveParallelism(rq.Parallelism),
                                       !.jobs = made.jobs, !.results = made.results,
                                       !.i = 0]]
      /\ UNCHANGED <<reqVars, interrupted, exited>>

\* go worker(jobs, results)
SrvSpawnWorker(r) ==
  LET h == srv.hs[r]
  IN  /\ ~exited
      /\ h.pc = "spawn"
      /\ SpawnMore(h.i, h.parallelism)
      /\ srv' = [srv EXCEPT
                   !.ws = Append(@, [owner |-> r, jobs |-> h.jobs, results |-> h.results,
                                     pc |-> "range", j |-> SrvNoJob, res |-> SrvNoResult]),
                   !.hs[r].i = @ + 1]
      /\ UNCHANGED <<reqVars, interrupted, exited>>

\* The spawn loop ends; the range over req.Mirrors begins.
SrvSpawnDone(r) ==
  LET h == srv.hs[r]
  IN  /\ ~exited
      /\ h.pc = "spawn"
      /\ ~SpawnMore(h.i, h.parallelism)
      /\ srv' = [srv EXCEPT !.hs[r].pc = "enqueue", !.hs[r].i = 0]
      /\ UNCHANGED <<reqVars, interrupted, exited>>

\* jobs <- func() *MirrorError {...}
SrvEnqueue(r) ==
  LET h == srv.hs[r]
      ch == srv.chans[h.jobs]
  IN  /\ ~exited
      /\ h.pc = "enqueue"
      /\ EnqueueMore(h.i, h.req)
      /\ ~ch.closed
      /\ Len(ch.buf) < ch.cap
      /\ srv' = [srv EXCEPT
                   !.chans[h.jobs].buf = Append(@, [r |-> r, i |-> h.i, m |-> h.req.Mirrors[h.i + 1]]),
                   !.hs[r].i = @ + 1]
      /\ UNCHANGED <<reqVars, interrupted, exited>>

\* close(jobs); var errors []*MirrorError
SrvCloseJobs(r) ==
  LET h == srv.hs[r]
  IN  /\ ~exited
      /\ h.pc = "enqueue"
      /\ ~EnqueueMore(h.i, h.req)
      /\ srv' = [srv EXCEPT
                   !.chans[h.jobs] = CloseChan(@),
                   !.hs[r].pc = "collect", !.hs[r].i = 0, !.hs[r].errors = <<>>]
      /\ UNCHANGED <<reqVars, interrupted, exited>>

\* err := <-results
SrvCollect(r) ==
  LET h == srv.hs[r]
      ch == srv.chans[h.results]
  IN  /\ ~exited
      /\ h.pc = "collect"
      /\ CollectMore(h.i, h.req, h.errors)
      /\ Len(ch.buf) > 0
      /\ srv' = [srv EXCEPT
                   !.chans[h.results].buf = Tail(@),
                   !.hs[r].errors = AppendError(@, Head(ch.buf).err),
                   !.hs[r].got = @ \cup {Head(ch.buf).r},
                   !.hs[r].i = @ + 1]
      /\ UNCHANGED <<reqVars, interrupted, exited>>

\* jsonResponse(w, ...)
SrvRespond(r) ==
  LET h == srv.hs[r]
  IN  /\ ~exited
      /\ h.pc = "collect"
      /\ ~CollectMore(h.i, h.req, h.errors)
      /\ srv' = [srv EXCEPT !.hs[r].response = MakeResponse(h.errors), !.hs[r].pc = "done"]
      /\ UNCHANGED <<reqVars, interrupted, exited>>

\* for j := range jobs: the worker takes the next closure out of its channel.
SrvWorkerRecv(w) ==
  /\ ~exited
  /\ w \in 1 .. Len(srv.ws)
  /\ srv.ws[w].pc = "range"
  /\ Len(srv.chans[srv.ws[w].jobs].buf) > 0
  /\ srv' = [srv EXCEPT
               !.ws[w].pc = "call",
               !.ws[w].j = Head(srv.chans[srv.ws[w].jobs].buf),
               !.chans[srv.ws[w].jobs] = JobsRecv(@)]
  /\ UNCHANGED <<reqVars, interrupted, exited>>

\* j() is called and enters gcrane.Copy.
SrvCallJob(w) ==
  /\ ~exited
  /\ w \in 1 .. Len(srv.ws)
  /\ srv.ws[w].pc = "call"
  /\ Name(srv.ws[w].j.m) # Panic
  /\ srv' = [srv EXCEPT !.ws[w].pc = "copy"]
  /\ UNCHANGED <<reqVars, interrupted, exited>>

\* j() is called for a nil *Mirror and panics: the process exits, and with
\* it the handlers and workers of every request.
SrvCallPanic(w) ==
  /\ ~exited
  /\ w \in 1 .. Len(srv.ws)
  /\ srv.ws[w].pc = "call"
  /\ Name(srv.ws[w].j.m) = Panic
  /\ exited' = TRUE
  /\ UNCHANGED <<reqVars, interrupted, srv>>

\* gcrane.Copy returns; the worker holds the result of j().
SrvCopyReturn(w) ==
  /\ ~exited
  /\ w \in 1 .. Len(srv.ws)
  /\ srv.ws[w].pc = "copy"
  /\ \E outcome \in CopyOutcomes(srv.ws[w].j.m.Src, srv.ws[w].j.m.Dst) :
       srv' = [srv EXCEPT
                !.ws[w].pc = "send",
                !.ws[w].res = [r |-> srv.ws[w].j.r, err |-> RunJob(srv.ws[w].j, outcome)],
                !.ws[w].j = SrvNoJob]
  /\ UNCHANGED <<reqVars, interrupted, exited>>

\* results <- (the value j() returned)
SrvWorkerSend(w) ==
  /\ ~exited
  /\ w \in 1 .. Len(srv.ws)
  /\ srv.ws[w].pc = "send"
  /\ Len(srv.chans[srv.ws[w].results].buf) < srv.chans[srv.ws[w].results].cap
  /\ srv' = [srv EXCEPT
               !.chans[srv.ws[w].results].buf = Append(@, srv.ws[w].res),
               !.ws[w].pc = "range",
               !.ws[w].res = SrvNoResult]
  /\ UNCHANGED <<reqVars, interrupted, exited>>

\* range over a closed and drained channel ends; the worker returns.
SrvWorkerExit(w) ==
  /\ ~exited
  /\ w \in 1 .. Len(srv.ws)
  /\ srv.ws[w].pc = "range"
  /\ Len(srv.chans[srv.ws[w].jobs].buf) = 0
  /\ srv.chans[srv.ws[w].jobs].closed
  /\ srv' = [srv EXCEPT !.ws[w].pc = "returned"]
  /\ UNCHANGED <<reqVars, interrupted, exited>>

ServerNext ==
  \/ \E r \in Requests :
       \/ SrvDecode(r)
       \/ SrvSpawnWorker(r)
       \/ SrvSpawnDone(r)
       \/ SrvEnqueue(r)
       \/ SrvCloseJobs(r)
       \/ SrvCollect(r)
       \/ SrvRespond(r)
  \/ \E w \in 1 .. 2 * MaxWorkers :
       \/ SrvWorkerRecv(w)
       \/ SrvCallJob(w)
       \/ SrvCallPanic(w)
       \/ SrvCopyReturn(w)
       \/ SrvWorkerSend(w)
       \/ SrvWorkerExit(w)

ServerSpec == ServerInit /\ [][ServerNext]_vars

TypeOK ==
  /\ body \in Bodies
  /\ pc \in {"decode", "spawn", "enqueue", "collect", "done"}
  /\ parallelism \in -1 .. MaxWorkers
  /\ i \in 0 .. MaxWorkers
  /\ Len(workers) <= MaxWorkers
  /\ \A w \in 1 .. Len(workers) : workers[w].pc \in {"range", "call", "copy", "send", "returned"}

\* ------------------------------------------------------------------------
\* Vocabulary of the properties
\* ------------------------------------------------------------------------

\* The request decoded and the handler went on to run the batch.
Decoded == body.kind = "valid" /\ pc # "decode"

\* The response of a decoded request has been written.
Responded == body.kind = "valid" /\ pc = "done"

\* The spawn loop is over.
Launched == body.kind = "valid" /\ pc \in {"enqueue", "collect", "done"}

\* 1-based positions of the batch's jobs.
JobIds == 1 .. Len(body.mirrors)

\* Job k has been sent on the jobs channel.
Enqueued(k) ==
  \/ pc = "enqueue" /\ k <= i
  \/ pc \in {"collect", "done"} /\ body.kind = "valid"

\* Number of results the coordinator has taken from the results channel.
Received == IF pc \in {"collect", "done"} THEN i ELSE 0

\* Workers holding a result they have not sent yet.
Pending == { w \in 1 .. Len(workers) : workers[w].pc = "send" }

\* Workers holding the closure of job k.
Holders(k) == { w \in 1 .. Len(workers) : workers[w].j.i = k - 1 }

\* Places of the jobs queue holding the closure of job k.
Queued(k) == { x \in 1 .. Len(jobs.buf) : jobs.buf[x].i = k - 1 }

\* Jobs whose "processing" line is printed and whose "finished" line is not.
InProgress == { k \in JobIds : stdout[k].processing > stdout[k].finished }

\* Total number of "finished" lines of jobs 1..k.
RECURSIVE FinishedUpTo(_)
FinishedUpTo(k) == IF k = 0 THEN 0 ELSE stdout[k].finished + FinishedUpTo(k - 1)

\* Positions of the response's errors that carry the index of job k.
EntriesOf(k) == { x \in 1 .. Len(response.Errors) : response.Errors[x].Index = k - 1 }

\* The name the response must give a mirror.
ExpectedName(m) ==
  CASE m.Src = "postgres" -> "(postgres to example.com/r/postgres)"
    [] m.Src = "redis"    -> "(redis to example.com/r/redis)"

\* ------------------------------------------------------------------------
\* Properties
\* ------------------------------------------------------------------------

\* C1: every enqueued job is claimed by exactly one worker and executed
\* exactly once.  No job is ever held by two workers or started twice; once
\* the response is written every job has been started and finished exactly
\* once; and each finished execution pushes exactly one result (the finished
\* executions are the results about to be sent, those buffered and those
\* already received, and none is left to send once the response is written).
C1_EachJobExecutedOnce ==
  body.kind = "valid" =>
    /\ \A k \in JobIds :
         /\ Cardinality(Holders(k)) <= 1
         /\ stdout[k].processing <= 1
         /\ stdout[k].finished <= stdout[k].processing
         /\ Responded => stdout[k].processing = 1 /\ stdout[k].finished = 1
    /\ FinishedUpTo(Len(body.mirrors)) = Cardinality(Pending) + Len(results.buf) + Received
    /\ Responded => Pending = {}

\* C1 witness: a batch of two or more jobs run by two or more workers is complete.
C1_Witness == Responded /\ Len(req.Mirrors) >= 2 /\ Len(workers) >= 2

\* C2: with effective parallelism P >= 1 the coordinator, under fair
\* scheduling and with every copy returning, eventually writes the response,
\* and when it does it has received exactly len(req.Mirrors) results.
C2_CoordinatorCollectsAll ==
  /\ (Decoded /\ parallelism >= 1) ~> Responded
  /\ [](Responded => Received = Len(req.Mirrors))

\* C3: in the response of a decoded batch, a job whose copy succeeded has no
\* entry in errors, and a job whose copy failed with message e has exactly
\* one entry, with its 0-based index, the name "(src to dst)" of its mirror
\* and the error e; errors holds no entry of any other index.
C3_ErrorsMatchFailures ==
  Responded =>
    /\ \A k \in JobIds :
         IF copyOutcome[k] = NoErr
         THEN EntriesOf(k) = {}
         ELSE /\ Cardinality(EntriesOf(k)) = 1
              /\ \A x \in EntriesOf(k) :
                   response.Errors[x] = [Index |-> k - 1,
                                         Name  |-> ExpectedName(body.mirrors[k]),
                                         Err   |-> copyOutcome[k]]
    /\ \A x \in 1 .. Len(response.Errors) : response.Errors[x].Index + 1 \in JobIds

\* C3 witness: two jobs, the first succeeded and the second failed.
C3_Witness ==
  /\ Responded
  /\ Len(req.Mirrors) = 2
  /\ copyOutcome[1] = NoErr
  /\ copyOutcome[2] \in CopyErrors
  /\ Len(response.Errors) = 1

\* C4: in the response of a decoded request ok is true iff errors is empty,
\* which is iff no job of the batch failed.
C4_OkIffNoErrors ==
  Responded =>
    /\ response.OK <=> Len(response.Errors) = 0
    /\ response.OK <=> \A k \in JobIds : copyOutcome[k] = NoErr

\* C4 witness: a response with ok false and a failure listed.
C4_Witness == Responded /\ ~response.OK /\ Len(response.Errors) >= 1

\* C5: a request whose parallelism is omitted or 0 runs with 5 workers, and a
\* request whose parallelism is negative is rejected: the response it gets
\* is a 4xx error and none of its jobs is executed.
C5_NegativeParallelismRejected ==
  body.kind = "valid" =>
    /\ (Launched /\ (~body.hasParallelism \/ body.parallelism = 0))
          => Len(workers) = DefaultParallelism
    /\ (body.hasParallelism /\ body.parallelism < 0) =>
          /\ pc = "done" => response.status \in 400 .. 499
          /\ \A k \in JobIds : stdout[k].processing = 0

\* C6: the number of workers launched is request.parallelism when that is
\* positive and 5 otherwise.
C6_WorkersLaunched ==
  Launched =>
    Len(workers) = IF req.Parallelism > 0 THEN req.Parallelism ELSE DefaultParallelism

\* C7: a failing job never aborts the batch.  Every job that was enqueued is
\* at any time in exactly one place (waiting in the queue, held by a worker,
\* or finished), whatever its siblings returned, and a response that
\* reports a failure is written only when every job has run to completion
\* and all results have been received.
C7_FailureDoesNotAbort ==
  body.kind = "valid" =>
    /\ \A k \in JobIds : Enqueued(k) =>
         Cardinality(Queued(k)) + Cardinality(Holders(k)) + stdout[k].finished = 1
    /\ (Responded /\ \E k \in JobIds : copyOutcome[k] \in CopyErrors) =>
         /\ \A k \in JobIds : stdout[k].finished = 1 /\ copyOutcome[k] # NotCalled
         /\ Received = Len(req.Mirrors)

\* C7 witness: the first job failed and the second still ran and succeeded.
C7_Witness ==
  /\ Responded
  /\ Len(req.Mirrors) >= 2
  /\ copyOutcome[1] \in CopyErrors
  /\ copyOutcome[2] = NoErr
  /\ stdout[2].finished = 1

\* C8: the response is written only after all results are received: when it
\* is written no job is waiting in the queue, none is being executed, and
\* no result is left unread in the results channel.
C8_CompleteOnlyAfterAll ==
  Responded =>
    /\ Received = Len(req.Mirrors)
    /\ Len(jobs.buf) = 0
    /\ \A w \in 1 .. Len(workers) : workers[w].pc \in {"range", "returned"}
    /\ InProgress = {}
    /\ Len(results.buf) = 0

\* C8 witness: a single worker ran a batch of two or more jobs to the response.
C8_Witness == Responded /\ Len(req.Mirrors) >= 2 /\ Len(workers) = 1

\* C9 as stated: an empty mirrors array yields {"ok": true} with no errors
\* and no worker is spawned for it.
C9_EmptyBatchNoWorkers ==
  (body.kind = "valid" /\ Len(body.mirrors) = 0) =>
    /\ Len(workers) = 0
    /\ pc = "done" => response = [status |-> StatusOK, OK |-> TRUE, Errors |-> <<>>]

\* C9 amended: an empty mirrors array yields {"ok": true} with no errors;
\* the workers launched for it (as many as for any other batch) execute no
\* job and push no result.
C9_EmptyBatchOk ==
  (body.kind = "valid" /\ Len(body.mirrors) = 0) =>
    /\ pc = "done" => response = [status |-> StatusOK, OK |-> TRUE, Errors |-> <<>>]
    /\ \A w \in 1 .. Len(workers) : workers[w].pc \in {"range", "returned"}
    /\ Len(jobs.buf) = 0
    /\ Len(results.buf) = 0
    /\ Launched => Len(workers) = IF parallelism > 0 THEN parallelism ELSE 0

\* C9 witness: an empty batch is answered after the default five workers were launched.
C9_Witness ==
  /\ Responded
  /\ Len(body.mirrors) = 0
  /\ Len(workers) = DefaultParallelism
  /\ response.OK

\* C10: parallelism is bounded.  With effective parallelism P >= 1 exactly P
\* workers exist once the spawn loop is over, never more before, and at most
\* P jobs are being executed at the same time; with P < 1 no worker exists
\* and no job is executed.
C10_BoundedParallelism ==
  body.kind = "valid" =>
    LET P == IF parallelism > 0 THEN parallelism ELSE 0
    IN  /\ Len(workers) <= P
        /\ Launched => Len(workers) = P
        /\ Cardinality(InProgress) <= P

\* C10 witness: all P workers are busy while another job waits in the queue.
C10_Witness ==
  /\ Decoded
  /\ parallelism >= 1
  /\ Cardinality(InProgress) = parallelism
  /\ Len(jobs.buf) >= 1

\* Workers that have returned from worker().
Returned == { w \in 1 .. Len(workers) : workers[w].pc = "returned" }

\* Workers that have called no closure so far.
NeverRan == { w \in 1 .. Len(workers) : ran[w] = 0 }

\* Total number of closures called by workers 1..w.
RECURSIVE RanUpTo(_)
RanUpTo(w) == IF w = 0 THEN 0 ELSE ran[w] + RanUpTo(w - 1)

\* C11: once the coordinator has closed the job queue every worker of the
\* batch eventually returns, unless the process has exited before (no worker
\* stays blocked forever); and when all have returned, with P >= 1 workers and
\* N jobs, at least P - N of them have returned without calling any closure
\* (the closures called by all workers together are the N jobs, and the
\* results pushed are as many).
C11_WorkersTerminate ==
  /\ (pc \in {"collect", "done"}) ~> (Returned = 1 .. Len(workers) \/ exited)
  /\ [](Len(workers) >= 1 /\ Returned = 1 .. Len(workers) /\ pc \in {"collect", "done"} =>
          /\ Cardinality(NeverRan) >= Len(workers) - Len(req.Mirrors)
          /\ RanUpTo(Len(workers)) = Len(req.Mirrors)
          /\ Len(results.buf) + Received = Len(req.Mirrors))

\* C11 witness: five workers served one job; all returned, four without running anything.
C11_Witness ==
  /\ pc \in {"collect", "done"}
  /\ Len(req.Mirrors) = 1
  /\ Len(workers) = DefaultParallelism
  /\ Returned = 1 .. Len(workers)
  /\ Cardinality(NeverRan) = DefaultParallelism - 1

\* C12: whenever a response is written, a request that decoded gets status
\* 200 whatever its jobs returned (a failing job shows only in ok and
\* errors), and a request-format error gets a 4xx status: 413 for an
\* oversized body, 400 for malformed or truncated JSON, a wrong-typed field,
\* an unknown field and an empty body.
C12_StatusByRequest ==
  pc = "done" =>
    /\ body.kind = "valid" => response.status = 200
    /\ body.kind \in {"syntax", "unexpectedEOF", "type", "unknownField", "empty"}
         => response.status = 400 /\ ~response.OK
    /\ body.kind = "tooLarge" => response.status = 413 /\ ~response.OK

\* C12 witness: every job of a batch failed and the response still has status 200.
C12_Witness ==
  /\ Responded
  /\ Len(req.Mirrors) >= 2
  /\ \A k \in JobIds : copyOutcome[k] # NoErr
  /\ response.status = 200
  /\ Len(response.Errors) = Len(req.Mirrors)

\* C13: two requests handled at the same time share no channel.  Their
\* handlers hold four different channels; a worker only ever holds a closure
\* made for the request that launched it; every closure waiting in a
\* request's job queue and every result in its result channel was made for
\* that request; a handler only receives results of its own jobs; and the
\* errors of its response name only its own mirrors, at most one per job.
C13_NoSharedChannels ==
  /\ \A r1 \in DOMAIN srv.hs, r2 \in DOMAIN srv.hs :
       (r1 # r2 /\ srv.hs[r1].pc # "decode" /\ srv.hs[r2].pc # "decode") =>
         {srv.hs[r1].jobs, srv.hs[r1].results} \cap {srv.hs[r2].jobs, srv.hs[r2].results} = {}
  /\ \A w \in 1 .. Len(srv.ws) :
       /\ srv.ws[w].pc \in {"call", "copy"} => srv.ws[w].j.r = srv.ws[w].owner
       /\ srv.ws[w].pc = "send" => srv.ws[w].res.r = srv.ws[w].owner
  /\ \A r \in DOMAIN srv.hs :
       LET h == srv.hs[r]
       IN  /\ h.pc # "decode" =>
                /\ h.jobs # h.results
                /\ \A x \in 1 .. Len(srv.chans[h.jobs].buf) : srv.chans[h.jobs].buf[x].r = r
                /\ \A x \in 1 .. Len(srv.chans[h.results].buf) : srv.chans[h.results].buf[x].r = r
           /\ h.got \subseteq {r}
           /\ h.pc = "done" =>
                /\ Len(h.response.Errors) <= Len(h.body.mirrors)
                /\ \A x \in 1 .. Len(h.response.Errors) :
                     h.response.Errors[x].Name = ExpectedName(RequestMirror(r))

\* C13 witness: workers of the two requests execute jobs at the same time.
C13_Witness ==
  \E w1 \in 1 .. Len(srv.ws), w2 \in 1 .. Len(srv.ws) :
    /\ srv.ws[w1].owner = 1 /\ srv.ws[w1].pc = "copy"
    /\ srv.ws[w2].owner = 2 /\ srv.ws[w2].pc = "copy"

\* The entries the response must hold for mirrors ms whose copies returned
\* outcome: a function of the batch and its copy outcomes alone.
ExpectedErrors(ms, outcome) ==
  { [Index |-> k - 1, Name |-> ExpectedName(ms[k]), Err |-> outcome[k]] :
      k \in { n \in 1 .. Len(ms) : outcome[n] # NoErr } }

\* C14: the ok value of the response and the set of its errors entries are
\* determined by the batch and the outcomes of its copies: whatever the
\* parallelism and the interleaving, ok is "no copy failed" and the set of
\* entries is the set of the failed jobs' (index, name, error), each listed
\* once.  Two runs with the same outcomes can differ only in the order of
\* the entries.
C14_ResponseDetermined ==
  Responded =>
    /\ response.OK = (\A k \in JobIds : copyOutcome[k] = NoErr)
    /\ { response.Errors[x] : x \in 1 .. Len(response.Errors) }
         = ExpectedErrors(body.mirrors, copyOutcome)
    /\ Len(response.Errors) = Cardinality(ExpectedErrors(body.mirrors, copyOutcome))

\* C14 witness: with the default five workers both jobs failed and the
\* entries arrived in the order opposite to the jobs'.
C14_Witness ==
  /\ Responded
  /\ Len(req.Mirrors) = 2
  /\ Len(workers) = DefaultParallelism
  /\ Len(response.Errors) = 2
  /\ response.Errors[1].Index = 1
  /\ response.Errors[2].Index = 0

\* The phase of the handler, as a number.
PhaseRank ==
  CASE pc = "decode"  -> 0
    [] pc = "spawn"   -> 1
    [] pc = "enqueue" -> 2
    [] pc = "collect" -> 3
    [] pc = "done"    -> 4

\* C15 as stated: the job list is fully built before execution is handed to
\* the workers, so no job is being or has been executed while the handler
\* is still building and enqueuing jobs.
C15_BuiltBeforeExecution ==
  (body.kind = "valid" /\ (pc \in {"decode", "spawn"} \/ (pc = "enqueue" /\ i < Len(req.Mirrors))))
    => \A k \in JobIds : stdout[k].processing = 0

\* C15 amended: the handler of a decoded request moves through launching
\* workers, enqueuing jobs, collecting results and complete, one after the
\* other and never back.  Nothing is queued or executed before enqueuing
\* begins; a job is executed only once it has been enqueued, possibly while
\* later jobs are still being enqueued; and collecting begins only when all
\* jobs have been enqueued and the queue is closed.
C15_PhasesInOrder ==
  /\ [][body.kind = "valid" => (PhaseRank' = PhaseRank \/ PhaseRank' = PhaseRank + 1)]_vars
  /\ [](body.kind = "valid" =>
          /\ pc \in {"decode", "spawn"} =>
               Len(jobs.buf) = 0 /\ \A k \in JobIds : stdout[k].processing = 0
          /\ \A k \in JobIds : stdout[k].processing > 0 => Enqueued(k)
          /\ pc \in {"collect", "done"} =>
               /\ jobs.closed
               /\ \A k \in JobIds :
                    Cardinality(Queued(k)) + Cardinality(Holders(k)) + stdout[k].finished = 1)

\* C15 witness: the first job is being executed while the second is not yet enqueued.
C15_Witness ==
  /\ body.kind = "valid"
  /\ pc = "enqueue"
  /\ i = 1
  /\ Len(req.Mirrors) = 2
  /\ stdout[1].processing = 1
  /\ stdout[1].finished = 0

\* C16: the handler never blocks while enqueuing.  The job queue has
\* capacity len(req.Mirrors) and never holds more; whenever the handler has
\* another job to send, the queue is open and has a free place, so the send
\* can be taken at once, whatever the workers are doing.
C16_EnqueueNeverBlocks ==
  Decoded =>
    /\ jobs.cap = Len(req.Mirrors)
    /\ Len(jobs.buf) <= jobs.cap
    /\ (pc = "enqueue" /\ i < Len(req.Mirrors)) =>
         /\ Len(jobs.buf) < jobs.cap
         /\ ~jobs.closed
         /\ ~exited => ENABLED Enqueue

\* C16 witness: all jobs of a batch of two or more were sent while the
\* launched workers had not yet taken any.
C16_Witness ==
  /\ Decoded
  /\ pc = "enqueue"
  /\ Len(req.Mirrors) >= 2
  /\ i = Len(req.Mirrors)
  /\ Len(jobs.buf) = Len(req.Mirrors)
  /\ Len(workers) >= 1

\* C17: a cancellation of the request's context after the request decoded
\* changes nothing in the batch.  The step that cancels leaves the handler,
\* the channels, the workers and the process as they are; after it, while
\* the process runs and the response is not written, some step of the
\* handler or of a worker can still be taken; under fair scheduling the
\* cancelled batch goes on to its response unless the process ends first (a
\* worker's panic, a server error or an interrupt of the server, none of
\* them a consequence of the cancellation); and a response written after a
\* cancellation is written only when every job has run to completion and
\* all N results have been received.
C17_CancelChangesNothing ==
  /\ [][ctxDone' # ctxDone =>
          UNCHANGED <<pc, req, parallelism, i, jobs, results, errors, workers,
                      stdout, response, copyOutcome, exited, interrupted>>]_vars
  /\ []((ctxDone /\ ~exited /\ pc # "done" /\ parallelism >= 1) =>
          ENABLED (Handler \/ \E w \in 1 .. MaxWorkers : Worker(w)))
  /\ (ctxDone /\ parallelism >= 1) ~> (Responded \/ exited)
  /\ []((ctxDone /\ Responded) =>
          /\ Received = Len(req.Mirrors)
          /\ \A k \in JobIds : stdout[k].processing = 1 /\ stdout[k].finished = 1
          /\ Len(jobs.buf) = 0
          /\ Len(results.buf) = 0
          /\ response = MakeResponse(errors))

\* C17 witness: a batch of two jobs was cancelled and still answered in full.
C17_Witness ==
  /\ ctxDone
  /\ Responded
  /\ Len(req.Mirrors) >= 2
  /\ Received = Len(req.Mirrors)
  /\ \A k \in JobIds : stdout[k].finished = 1

\* A sequence of results or errors is in strictly increasing index order.
IndexOrdered(es) ==
  \A x \in 1 .. Len(es), y \in 1 .. Len(es) :
    (x < y /\ es[x] # Nil /\ es[y] # Nil) => es[x].Index < es[y].Index

\* C18: errors lists the failures in the order the coordinator received
\* them: errors changes only when the coordinator takes the head of the
\* results channel, and then that result, if it is a failure, is put at the
\* end; the response carries errors as it then is.  With P = 1 the single
\* worker starts job k only when all jobs before k are finished, results
\* are pushed in index order, and errors is in strictly increasing index
\* order.  (With P >= 2 an interleaving with errors out of index order
\* exists: the witness.)
C18_ErrorsInReceiveOrder ==
  /\ [][errors' # errors =>
          /\ pc = "collect"
          /\ Len(results.buf) > 0
          /\ Head(results.buf) # Nil
          /\ results'.buf = Tail(results.buf)
          /\ errors' = Append(errors, Head(results.buf))]_vars
  /\ [][(pc = "collect" /\ i' = i + 1 /\ Head(results.buf) = Nil) => errors' = errors]_vars
  /\ [](Responded => response.Errors = errors)
  /\ []((Decoded /\ parallelism = 1) =>
          /\ \A k \in JobIds : stdout[k].processing = 1 =>
                \A n \in 1 .. k - 1 : stdout[n].finished = 1
          /\ IndexOrdered(results.buf)
          /\ IndexOrdered(errors)
          /\ Responded => IndexOrdered(response.Errors))

\* C18 witness: with two workers both jobs failed and the failure of the
\* second job was received, and is listed, before that of the first.
C18_Witness ==
  /\ Responded
  /\ parallelism = 2
  /\ Len(response.Errors) = 2
  /\ response.Errors[1].Index > response.Errors[2].Index

\* C19: a worker never blocks when pushing a result.  The results channel
\* has capacity len(req.Mirrors); the results pushed so far, buffered or
\* already received, are never more than that; a worker that has a result
\* to push finds room in the buffer and its push can be taken at once; and
\* this holds also while the coordinator has read nothing.
C19_ResultPushNeverBlocks ==
  Decoded =>
    /\ results.cap = Len(req.Mirrors)
    /\ Len(results.buf) <= results.cap
    /\ Len(results.buf) + Received <= Len(req.Mirrors)
    /\ Len(results.buf) + Cardinality(Pending) + Received <= Len(req.Mirrors)
    /\ \A w \in 1 .. Len(workers) :
         workers[w].pc = "send" =>
           /\ Len(results.buf) < results.cap
           /\ ~exited => ENABLED WorkerSend(w)
    /\ \A w \in 1 .. Len(workers) :
         (workers[w].pc = "range" /\ jobs.closed /\ Len(jobs.buf) = 0 /\ ~exited) =>
           ENABLED WorkerExit(w)

\* C19 witness: both workers pushed their results and returned while the
\* coordinator had read nothing; the results channel is full.
C19_Witness ==
  /\ pc = "collect"
  /\ i = 0
  /\ Len(req.Mirrors) >= 2
  /\ Len(workers) >= 2
  /\ Len(results.buf) = Len(req.Mirrors)
  /\ Returned = 1 .. Len(workers)

\* C20: the job queue is closed exactly once, by the coordinator, after all
\* N jobs were enqueued and before any result is read.  The queue goes from
\* open to closed in one step only, the coordinator's step from the
\* enqueue loop (all N sent) to the collect loop (nothing received), which
\* leaves the buffer and the workers as they are; it never reopens; while
\* it is open no result has been received; once it is closed its buffer
\* only loses its head, to a worker; and every job is then in exactly one
\* place: still buffered, held by a worker, or finished, and all are
\* finished when the response is written.
C20_QueueClosedOnce ==
  /\ [][jobs.closed' # jobs.closed =>
          /\ ~jobs.closed
          /\ jobs.closed'
          /\ pc = "enqueue"
          /\ i = Len(req.Mirrors)
          /\ \A k \in JobIds : Enqueued(k)
          /\ pc' = "collect"
          /\ i' = 0
          /\ jobs'.buf = jobs.buf
          /\ UNCHANGED <<workers, results, errors, stdout>>]_vars
  /\ [][jobs.closed =>
          \/ jobs' = jobs
          \/ /\ Len(jobs.buf) > 0
             /\ jobs' = [jobs EXCEPT !.buf = Tail(@)]
             /\ \E w \in 1 .. Len(workers) :
                  workers[w].pc = "range" /\ workers'[w].j = Head(jobs.buf)]_vars
  /\ [](Decoded => (jobs.closed <=> pc \in {"collect", "done"}))
  /\ [](~jobs.closed => Received = 0 /\ errors = <<>>)
  /\ []((Decoded /\ jobs.closed) =>
          \A k \in JobIds :
            Cardinality(Queued(k)) + Cardinality(Holders(k)) + stdout[k].finished = 1)
  /\ [](Responded => \A k \in JobIds : stdout[k].finished = 1)

\* C20 witness: the queue is closed, nothing has been received, and a job
\* is still buffered while the only worker executes the one before it.
C20_Witness ==
  /\ Decoded
  /\ jobs.closed
  /\ Len(jobs.buf) >= 1
  /\ Len(workers) = 1
  /\ workers[1].pc = "copy"
  /\ Received = 0

====
